---- MODULE Spec2Model ----
(***************************************************************************)
(* ForecastForge front-end: the ResultsPage polling protocol               *)
(* (src/frontend/src/pages/HomePage.js, lines 88-161), mounted by the      *)
(* router of src/unnamed/part_000 under the React.StrictMode root of       *)
(* src/unnamed/part_001.                                                   *)
(*                                                                         *)
(* JavaScript runs the component on one thread.  The steps that interleave *)
(* are: React running the effect and its cleanup, a firing of the interval *)
(* timer (which sends one GET and suspends at the await), the remote       *)
(* server answering, and the resumption of a suspended callback with the   *)
(* response or with a transport error.                                     *)
(***************************************************************************)
EXTENDS Integers, Sequences, FiniteSets, Bags, TLC

\* ------------------------------------------------------------------ bounds
MaxTask == 2        \* task ids the route parameter ranges over
MaxPolls == 3       \* effect runs (setInterval calls) of one component
MaxFetch == 2       \* status queries sent by one component
TotalSteps == 1     \* models the worker fits for one task
MaxStep == 2        \* largest current/total the bounded payloads carry
MaxLen == 3         \* longest result list of the bounded payloads
MaxMape == 2        \* largest mape of the bounded payloads
MaxMae == 1         \* largest mae of the bounded payloads

Tasks == 1..MaxTask

\* ------------------------------------------------------- response payloads
Absent == -1        \* a numeric field the JSON body does not carry
NoModel == "undefined"

NoMeta == [has |-> FALSE, model |-> NoModel, current |-> Absent, total |-> Absent]
EmptyMeta == [has |-> TRUE, model |-> NoModel, current |-> Absent, total |-> Absent]
NullResults == [isNull |-> TRUE, rows |-> <<>>]

Statuses == {"PENDING", "RUNNING", "SUCCESS", "FAILURE"}

\* useState({ status: 'PENDING', meta: {} })
InitialTaskStatus == [status |-> "PENDING", meta |-> EmptyMeta, results |-> NullResults]

VARIABLES
  strict,       \* the build double-invokes effects (React.StrictMode, development)
  view,         \* "init" before mount, "mounted", "unmounted"
  taskId,       \* useParams().taskId
  taskStatus,   \* useState: the held snapshot
  results,      \* useState: null or the result list
  polls,        \* polls[p] = taskId captured by the closure of interval p
  timers,       \* interval ids that are active (created and not cleared)
  poll,         \* interval id held by the cleanup of the latest effect run
  fetches,      \* fetches[f] = the f-th axios.get, in order of initiation
  applied,      \* fetch ids whose response reached setTaskStatus/setResults, in order
  server,       \* server[t] = state of task t at the remote worker
  route,        \* "home" while HomePage is shown, "results" after navigate
  file,         \* HomePage useState: the selected file or null
  error,        \* HomePage useState: the message shown under the form
  loading,      \* HomePage useState: disables the submit button
  post,         \* the axios.post of the latest submission and its outcome
  posts,        \* number of POST requests sent
  submits       \* number of runs of handleSubmit

\* state of ResultsPage and of the worker
pageVars == <<strict, view, taskId, taskStatus, results, polls, timers, poll,
              fetches, applied, server>>

\* state of HomePage
homeVars == <<route, file, error, loading, post, posts, submits>>

vars == <<strict, view, taskId, taskStatus, results, polls, timers, poll,
          fetches, applied, server, route, file, error, loading, post, posts,
          submits>>

\* ------------------------------------------------------------ remote worker
ServerInit == [phase |-> "PENDING", current |-> 0]

\* results of task t as the worker returns them (unordered, spec section 3)
TaskResults(t) ==
  << [model_name |-> "A", mape |-> 12 + t, mae |-> 4],
     [model_name |-> "B", mape |-> 5 + t, mae |-> 2] >>

\* body of GET /api/results/{t} when the task is in state s
Snapshot(s, t) ==
  CASE s.phase = "PENDING" ->
         [status |-> "PENDING", meta |-> NoMeta, results |-> NullResults]
    [] s.phase = "RUNNING" ->
         [status |-> "RUNNING",
          meta |-> [has |-> TRUE, model |-> "M", current |-> s.current,
                    total |-> TotalSteps],
          results |-> NullResults]
    [] s.phase = "SUCCESS" ->
         [status |-> "SUCCESS", meta |-> NoMeta,
          results |-> [isNull |-> FALSE, rows |-> TaskResults(t)]]
    [] OTHER ->
         [status |-> "FAILURE", meta |-> NoMeta, results |-> NullResults]

\* the worker advances a task: monotonic toward SUCCESS or FAILURE
\* (steps of a task nobody has queried yet commute with every client step,
\* so they are taken from the first query on)
ServerStep(t) ==
  /\ \E f \in DOMAIN fetches : fetches[f].task = t
  /\ server[t].phase \in {"PENDING", "RUNNING"}
  /\ \E s \in { [phase |-> "RUNNING", current |-> server[t].current + 1],
               [phase |-> "SUCCESS", current |-> 0],
               [phase |-> "FAILURE", current |-> 0] } :
        /\ s.phase = "RUNNING" => server[t].current < TotalSteps
        /\ s.phase = "SUCCESS" => server[t].current = TotalSteps
        /\ s.phase = "FAILURE" => server[t].phase = "RUNNING"
        /\ server' = [server EXCEPT ![t] = s]
  /\ UNCHANGED <<strict, view, taskId, taskStatus, results, polls, timers,
                 poll, fetches, applied>>
  /\ UNCHANGED homeVars

\* the worker answers a pending query with the task's state at that moment
ServerAnswer(f) ==
  /\ f \in DOMAIN fetches
  /\ fetches[f].st = "pending"
  /\ fetches' = [fetches EXCEPT ![f].st = "answered",
                                ![f].data = Snapshot(server[fetches[f].task],
                                                     fetches[f].task)]
  /\ UNCHANGED <<strict, view, taskId, taskStatus, results, polls, timers,
                 poll, applied, server>>
  /\ UNCHANGED homeVars

\* ------------------------------------------------------------- ResultsPage
\* setTaskStatus that merges the response into the previous snapshot
\* (fields the response does not carry keep their old value)
SetTaskStatusMerge(data) ==
  taskStatus' =
    IF view = "mounted"
      THEN [data EXCEPT !.meta = IF data.meta.has THEN data.meta ELSE taskStatus.meta]
      ELSE taskStatus

\* React state setters: a set on an unmounted component changes nothing
SetTaskStatus(data) ==
  taskStatus' = IF view = "mounted" THEN data ELSE taskStatus

SetResults(res) ==
  results' = IF view = "mounted" THEN res ELSE results

\* first render commits; the effect runs: setInterval(..., 3000).  Under
\* StrictMode (development) React runs effect, cleanup, effect on mount.
Mount ==
  /\ view = "init"
  /\ view' = "mounted"
  /\ IF strict
       THEN /\ polls' = <<taskId, taskId>>
            /\ timers' = {2}
            /\ poll' = 2
       ELSE /\ polls' = <<taskId>>
            /\ timers' = {1}
            /\ poll' = 1
  /\ UNCHANGED <<strict, taskId, taskStatus, results, fetches, applied, server>>
  /\ UNCHANGED homeVars

\* ChangeTask whose effect cleanup forgets clearInterval
ChangeTaskNoCleanup(t) ==
  /\ view = "mounted"
  /\ t # taskId
  /\ Len(polls) < MaxPolls
  /\ taskId' = t
  /\ polls' = Append(polls, t)
  /\ timers' = timers \cup {Len(polls) + 1}
  /\ poll' = Len(polls) + 1
  /\ UNCHANGED <<strict, view, taskStatus, results, fetches, applied, server>>
  /\ UNCHANGED homeVars

\* the route parameter changes while the component stays mounted
\* (dependency array [taskId]): cleanup of the old effect, then the effect
ChangeTask(t) ==
  /\ view = "mounted"
  /\ t # taskId
  /\ Len(polls) < MaxPolls
  /\ taskId' = t
  /\ polls' = Append(polls, t)
  /\ timers' = (timers \ {poll}) \cup {Len(polls) + 1}
  /\ poll' = Len(polls) + 1
  /\ UNCHANGED <<strict, view, taskStatus, results, fetches, applied, server>>
  /\ UNCHANGED homeVars

\* Unmount whose cleanup forgets clearInterval
UnmountNoCleanup ==
  /\ view = "mounted"
  /\ view' = "unmounted"
  /\ UNCHANGED <<strict, taskId, taskStatus, results, polls, timers, poll,
                 fetches, applied, server>>
  /\ UNCHANGED homeVars

\* return () => clearInterval(poll), run when the component unmounts
Unmount ==
  /\ view = "mounted"
  /\ view' = "unmounted"
  /\ timers' = timers \ {poll}
  /\ UNCHANGED <<strict, taskId, taskStatus, results, polls, poll, fetches,
                 applied, server>>
  /\ UNCHANGED homeVars

\* interval p fires: the callback sends axios.get and suspends at the await
Tick(p) ==
  /\ p \in timers
  /\ Len(fetches) < MaxFetch
  /\ fetches' = Append(fetches, [poll |-> p, task |-> polls[p], st |-> "pending",
                                 data |-> InitialTaskStatus])
  /\ UNCHANGED <<strict, view, taskId, taskStatus, results, polls, timers,
                 poll, applied, server>>
  /\ UNCHANGED homeVars

\* Deliver whose SUCCESS branch forgets clearInterval
DeliverNoClear(f) ==
  /\ f \in DOMAIN fetches
  /\ fetches[f].st = "answered"
  /\ IF fetches[f].data.status = "SUCCESS"
       THEN /\ SetResults(fetches[f].data.results)
            /\ UNCHANGED <<taskStatus, timers>>
       ELSE /\ SetTaskStatus(fetches[f].data)
            /\ UNCHANGED <<results, timers>>
  /\ fetches' = [fetches EXCEPT ![f].st = "applied"]
  /\ applied' = Append(applied, f)
  /\ UNCHANGED <<strict, view, taskId, polls, poll, server>>
  /\ UNCHANGED homeVars

\* the await resumes with a response (try branch, lines 97-102)
Deliver(f) ==
  /\ f \in DOMAIN fetches
  /\ fetches[f].st = "answered"
  /\ IF fetches[f].data.status = "SUCCESS"
       THEN /\ SetResults(fetches[f].data.results)
            /\ timers' = timers \ {fetches[f].poll}
            /\ UNCHANGED taskStatus
       ELSE /\ SetTaskStatus(fetches[f].data)
            /\ UNCHANGED <<results, timers>>
  /\ fetches' = [fetches EXCEPT ![f].st = "applied"]
  /\ applied' = Append(applied, f)
  /\ UNCHANGED <<strict, view, taskId, polls, poll, server>>
  /\ UNCHANGED homeVars

\* the await rejects (catch branch, lines 103-106): log, clearInterval
DeliverError(f) ==
  /\ f \in DOMAIN fetches
  /\ fetches[f].st \in {"pending", "answered"}
  /\ fetches' = [fetches EXCEPT ![f].st = "failed"]
  /\ timers' = timers \ {fetches[f].poll}
  /\ UNCHANGED <<strict, view, taskId, taskStatus, results, polls, poll,
                 applied, server>>
  /\ UNCHANGED homeVars

\* ---------------------------------------------------------------- HomePage
MaxSubmits == 3     \* runs of handleSubmit

NoFile == "null"
Files == {"demand.csv"}

ValidationMsg == "Por favor, selecciona un archivo CSV."
FallbackMsg == "Ocurrio un error al subir el archivo."

NoPost == [st |-> "none", task_id |-> 0, hasResponse |-> FALSE,
           hasDetail |-> FALSE, detail |-> ""]

\* ways the POST can fail: no response at all (transport error), or a non-2xx
\* response whose body carries no detail, an empty detail or a detail text
Details == {"", "CSV sin columna de demanda"}

Rejections ==
  [hasResponse : {FALSE}, hasDetail : {FALSE}, detail : {""}]
    \cup [hasResponse : {TRUE}, hasDetail : {FALSE}, detail : {""}]
    \cup [hasResponse : {TRUE}, hasDetail : {TRUE}, detail : Details]

\* lines 19-22: the user picks a file or cancels the dialog (files[0] undefined)
handleFileChange(x) ==
  /\ route = "home"
  /\ file' = x
  /\ error' = ""
  /\ UNCHANGED <<route, loading, post, posts, submits>>
  /\ UNCHANGED pageVars

\* handleSubmit without the early return of line 28
handleSubmitNoReturn ==
  /\ route = "home"
  /\ ~loading
  /\ submits < MaxSubmits
  /\ submits' = submits + 1
  /\ loading' = TRUE
  /\ error' = IF file = NoFile THEN ValidationMsg ELSE ""
  /\ post' = [NoPost EXCEPT !.st = "pending"]
  /\ posts' = posts + 1
  /\ UNCHANGED <<route, file>>
  /\ UNCHANGED pageVars

\* lines 24-35: the form is submitted (the button is disabled while loading,
\* line 66); up to the await of axios.post
handleSubmit ==
  /\ route = "home"
  /\ ~loading
  /\ submits < MaxSubmits
  /\ submits' = submits + 1
  /\ IF file = NoFile
       THEN /\ error' = ValidationMsg
            /\ UNCHANGED <<loading, post, posts>>
       ELSE /\ loading' = TRUE
            /\ error' = ""
            /\ post' = [NoPost EXCEPT !.st = "pending"]
            /\ posts' = posts + 1
  /\ UNCHANGED <<route, file>>
  /\ UNCHANGED pageVars

\* lines 35-43, 46-48: the POST resolves; navigate, then finally
PostResolve(t) ==
  /\ post.st = "pending"
  /\ post' = [NoPost EXCEPT !.st = "resolved", !.task_id = t]
  /\ route' = "results"
  /\ loading' = FALSE
  /\ UNCHANGED <<file, error, posts, submits>>
  /\ UNCHANGED pageVars

\* PostReject that always shows the generic message
PostRejectGeneric(r) ==
  /\ post.st = "pending"
  /\ post' = [st |-> "rejected", task_id |-> 0, hasResponse |-> r.hasResponse,
              hasDetail |-> r.hasDetail, detail |-> r.detail]
  /\ error' = FallbackMsg
  /\ loading' = FALSE
  /\ UNCHANGED <<route, file, posts, submits>>
  /\ UNCHANGED pageVars

\* PostReject with setLoading(false) only on the success path
PostRejectNoFinally(r) ==
  /\ post.st = "pending"
  /\ post' = [st |-> "rejected", task_id |-> 0, hasResponse |-> r.hasResponse,
              hasDetail |-> r.hasDetail, detail |-> r.detail]
  /\ error' = IF r.hasResponse /\ r.hasDetail /\ r.detail # ""
                THEN r.detail ELSE FallbackMsg
  /\ UNCHANGED <<route, file, loading, posts, submits>>
  /\ UNCHANGED pageVars

\* lines 44-48: the POST rejects; err.response?.data?.detail || fallback (an
\* empty string is falsy), then finally
PostReject(r) ==
  /\ post.st = "pending"
  /\ post' = [st |-> "rejected", task_id |-> 0, hasResponse |-> r.hasResponse,
              hasDetail |-> r.hasDetail, detail |-> r.detail]
  /\ error' = IF r.hasResponse /\ r.hasDetail /\ r.detail # ""
                THEN r.detail ELSE FallbackMsg
  /\ loading' = FALSE
  /\ UNCHANGED <<route, file, posts, submits>>
  /\ UNCHANGED pageVars

\* HomePage as useState leaves it (lines 14-16), at route "/"
HomeInit ==
  /\ route = "home"
  /\ file = NoFile
  /\ error = ""
  /\ loading = FALSE
  /\ post = NoPost
  /\ posts = 0
  /\ submits = 0

\* HomePage after one successful submission has navigated to /results/1
HomeDone ==
  /\ route = "results"
  /\ file \in Files
  /\ error = ""
  /\ loading = FALSE
  /\ post = [NoPost EXCEPT !.st = "resolved", !.task_id = 1]
  /\ posts = 1
  /\ submits = 1

\* ResultsPage not rendered yet
PageIdle ==
  /\ strict = FALSE
  /\ view = "init"
  /\ taskId = 1
  /\ taskStatus = InitialTaskStatus
  /\ results = NullResults
  /\ polls = <<>>
  /\ timers = {}
  /\ poll = 0
  /\ fetches = <<>>
  /\ applied = <<>>
  /\ server = [t \in Tasks |-> ServerInit]

InitHome == HomeInit /\ PageIdle

NextHome ==
  \/ \E x \in Files \cup {NoFile} : handleFileChange(x)
  \/ handleSubmit
  \/ \E t \in Tasks : PostResolve(t)
  \/ \E r \in Rejections : PostReject(r)

SpecHome == InitHome /\ [][NextHome]_vars

\* ----------------------------------------------------------------- render
\* Progress without the guard on total
ProgressNoGuard(ts) ==
  IF ts.meta.has
    THEN [nan |-> (ts.meta.current = Absent \/ ts.meta.total = Absent),
          num |-> ts.meta.current * 100, den |-> ts.meta.total]
    ELSE [nan |-> TRUE, num |-> 0, den |-> 1]

\* line 113: meta?.total ? (meta.current / meta.total) * 100 : 0, kept as the
\* exact fraction num/den (den > 0); undefined / total is NaN
Progress(ts) ==
  IF ts.meta.has /\ ts.meta.total # Absent /\ ts.meta.total # 0
    THEN IF ts.meta.current = Absent
           THEN [nan |-> TRUE, num |-> 0, den |-> 1]
           ELSE [nan |-> FALSE, num |-> ts.meta.current * 100, den |-> ts.meta.total]
    ELSE [nan |-> FALSE, num |-> 0, den |-> 1]

\* line 111: if (!results) the progress view is rendered, else the table
ShowsProgress == results.isNull

\* Rows that lists the entries in reverse order
RowsReversed(res) ==
  [i \in 1..Len(res.rows) |->
     [index |-> i - 1, best |-> (i - 1 = 0),
      model_name |-> res.rows[Len(res.rows) + 1 - i].model_name,
      mape |-> res.rows[Len(res.rows) + 1 - i].mape,
      mae |-> res.rows[Len(res.rows) + 1 - i].mae]]

\* lines 146-155: results.map((res, index) => <tr>...): one row per entry, in
\* the order of the array, the row of index 0 highlighted as the best one
Rows(res) ==
  [i \in 1..Len(res.rows) |->
     [index |-> i - 1, best |-> (i - 1 = 0),
      model_name |-> res.rows[i].model_name,
      mape |-> res.rows[i].mape,
      mae |-> res.rows[i].mae]]

\* ------------------------------------------- one response, any payload
Metas ==
  {NoMeta} \cup [has : {TRUE}, model : {NoModel, "M"},
                 current : Absent..MaxStep, total : Absent..MaxStep]

Entries == [model_name : {"A", "B"}, mape : 0..MaxMape, mae : 0..MaxMae]

Payloads == UNION { [1..n -> Entries] : n \in 0..MaxLen }

AllData ==
  [status : Statuses \ {"SUCCESS"}, meta : Metas, results : {NullResults}]
    \cup [status : {"SUCCESS"}, meta : {NoMeta},
          results : [isNull : {FALSE}, rows : Payloads]]

\* a mounted page whose first status query has been answered with any body
\* the interface of GET /api/results/{task_id} allows
InitView ==
  /\ strict = FALSE
  /\ view = "mounted"
  /\ taskId = 1
  /\ taskStatus = InitialTaskStatus
  /\ results = NullResults
  /\ polls = <<1>>
  /\ timers = {1}
  /\ poll = 1
  /\ \E d \in AllData :
       fetches = << [poll |-> 1, task |-> 1, st |-> "answered", data |-> d] >>
  /\ applied = <<>>
  /\ server = [t \in Tasks |-> ServerInit]
  /\ HomeDone

NextView == \E f \in 1..MaxFetch : Deliver(f)

SpecView == InitView /\ [][NextView]_vars

Init ==
  /\ strict \in BOOLEAN
  /\ view = "init"
  /\ taskId = 1
  /\ taskStatus = InitialTaskStatus
  /\ results = NullResults
  /\ polls = <<>>
  /\ timers = {}
  /\ poll = 0
  /\ fetches = <<>>
  /\ applied = <<>>
  /\ server = [t \in Tasks |-> ServerInit]
  /\ HomeDone

Next ==
  \/ Mount
  \/ \E t \in Tasks : ChangeTask(t)
  \/ Unmount
  \/ \E p \in 1..MaxPolls : Tick(p)
  \/ \E t \in Tasks : ServerStep(t)
  \/ \E f \in 1..MaxFetch : ServerAnswer(f)
  \/ \E f \in 1..MaxFetch : Deliver(f)
  \/ \E f \in 1..MaxFetch : DeliverError(f)

Spec == Init /\ [][Next]_vars

\* Tick with room for one more query than MaxFetch
TickLong(p) ==
  /\ p \in timers
  /\ Len(fetches) < MaxFetch + 1
  /\ fetches' = Append(fetches, [poll |-> p, task |-> polls[p], st |-> "pending",
                                 data |-> InitialTaskStatus])
  /\ UNCHANGED <<strict, view, taskId, taskStatus, results, polls, timers,
                 poll, applied, server>>
  /\ UNCHANGED homeVars

\* the same page, followed for one query more
NextLong ==
  \/ Mount
  \/ \E t \in Tasks : ChangeTask(t)
  \/ Unmount
  \/ \E p \in 1..MaxPolls : TickLong(p)
  \/ \E t \in Tasks : ServerStep(t)
  \/ \E f \in 1..(MaxFetch + 1) : ServerAnswer(f)
  \/ \E f \in 1..(MaxFetch + 1) : Deliver(f)
  \/ \E f \in 1..(MaxFetch + 1) : DeliverError(f)

SpecLong == Init /\ [][NextLong]_vars

\* The interval timer fires every 3000 ms while it is active (setInterval);
\* the worker answers every query and every answer reaches the callback.
SpecLive ==
  /\ Init
  /\ [][Next]_vars
  /\ \A p \in 1..MaxPolls : WF_vars(Tick(p))
  /\ \A f \in 1..MaxFetch : WF_vars(ServerAnswer(f)) /\ WF_vars(Deliver(f))

\* ------------------------------------------------------------- properties
\* status queries sent by interval p
Issued(p) == { f \in DOMAIN fetches : fetches[f].poll = p }

\* queries of interval p that are sent and not yet resolved
InFlight(p) ==
  { f \in DOMAIN fetches : fetches[f].poll = p /\ fetches[f].st \in {"pending", "answered"} }

\* queries of interval p whose response was handled and carried status s
Handled(p, s) ==
  { f \in DOMAIN fetches :
      fetches[f].poll = p /\ fetches[f].st = "applied" /\ fetches[f].data.status = s }

\* queries of interval p that ended in the catch branch
Failed(p) == { f \in DOMAIN fetches : fetches[f].poll = p /\ fetches[f].st = "failed" }

PollIds == 1..MaxPolls

\* C1: once the page has unmounted (the effect cleanup has run), no response
\* reaches setTaskStatus or setResults any more.
C1_NoSetterAfterUnmount == [][view = "unmounted" => applied' = applied]_vars

\* C2: an interval never has more than one status query in flight.
C2_OneFetchInFlight == \A p \in PollIds : Cardinality(InFlight(p)) <= 1

\* C3: the responses of one interval are applied in the order in which their
\* queries were sent.
C3_AppliedInInitiationOrder ==
  \A i, j \in DOMAIN applied :
    (i < j /\ fetches[applied[i]].poll = fetches[applied[j]].poll)
      => applied[i] < applied[j]

\* C4: after an interval has handled a FAILURE response it sends no further
\* query and its timer is cleared.
C4_FailureStopsPolling ==
  [][\A p \in PollIds :
       Handled(p, "FAILURE") # {} => (p \notin timers /\ Issued(p)' = Issued(p))]_vars

\* C5: within one interval setResults is called at most once.
C5_ResultsSetAtMostOnce == \A p \in PollIds : Cardinality(Handled(p, "SUCCESS")) <= 1

\* C6: after an interval has handled a transport error it sends no further
\* query and none of its responses sets results afterwards.
C6_ErrorEndsSession ==
  [][\A p \in PollIds :
       Failed(p) # {} => (/\ Issued(p)' = Issued(p)
                          /\ Handled(p, "SUCCESS")' = Handled(p, "SUCCESS"))]_vars

\* C7: after an interval has handled a SUCCESS response it sends no further
\* status query.
C7_SuccessStopsPolling ==
  [][\A p \in PollIds : Handled(p, "SUCCESS") # {} => Issued(p)' = Issued(p)]_vars

\* a SUCCESS response was handled while the page is mounted and the bound on
\* queries still leaves room for another one
C7_Witness ==
  /\ view = "mounted"
  /\ Len(fetches) < MaxFetch
  /\ Handled(poll, "SUCCESS") # {}

\* C8: after the page has unmounted no new status query is sent, whatever
\* the state of the task.
C8_UnmountStopsPolling == [][view = "unmounted" => Len(fetches') = Len(fetches)]_vars

\* the page unmounted while its task was still running, after one query, with
\* room for another one under the bound
C8_Witness ==
  /\ view = "unmounted"
  /\ Len(fetches) = 1
  /\ Len(fetches) < MaxFetch
  /\ server[taskId].phase = "RUNNING"
  /\ results.isNull

\* number of rows of sequence xs equal to entry e
Count(xs, e) == Cardinality({ i \in DOMAIN xs : xs[i] = e })

\* the entries shown by the table, without the presentation fields
Surfaced ==
  [i \in DOMAIN Rows(results) |->
     [model_name |-> Rows(results)[i].model_name,
      mape |-> Rows(results)[i].mape,
      mae |-> Rows(results)[i].mae]]

\* C9: the table shows the entries of the SUCCESS payload, all of them, sorted
\* non-decreasing by mape.
C9_RankingSorted ==
  ~ShowsProgress =>
    /\ Len(Surfaced) = Len(fetches[1].data.results.rows)
    /\ \A e \in Entries : Count(Surfaced, e) = Count(fetches[1].data.results.rows, e)
    /\ \A i, j \in DOMAIN Surfaced : i < j => Surfaced[i].mape <= Surfaced[j].mape

\* C10: for a snapshot with non-negative current and total the rendered
\* progress lies between 0% and 100%.
C10_ProgressClamped ==
  (/\ ShowsProgress
   /\ taskStatus.meta.has
   /\ taskStatus.meta.current >= 0
   /\ taskStatus.meta.total >= 0)
    => /\ ~Progress(taskStatus).nan
       /\ 0 <= Progress(taskStatus).num
       /\ Progress(taskStatus).num <= 100 * Progress(taskStatus).den

\* C11: while the progress view is shown, a snapshot whose meta or total is
\* absent or whose total is 0 renders a progress of exactly 0, computed
\* without a division by zero.
C11_ZeroTotalGivesZero ==
  (/\ ShowsProgress
   /\ (~taskStatus.meta.has \/ taskStatus.meta.total = Absent \/ taskStatus.meta.total = 0))
    => /\ ~Progress(taskStatus).nan
       /\ Progress(taskStatus).den > 0
       /\ Progress(taskStatus).num = 0

\* a delivered snapshot with total 0 and a positive current is held
C11_Witness ==
  /\ applied # <<>>
  /\ ShowsProgress
  /\ taskStatus.meta.has
  /\ taskStatus.meta.total = 0
  /\ taskStatus.meta.current > 0

\* xs is sorted non-decreasing by mape
SortedByMape(xs) == \A i, j \in DOMAIN xs : i < j => xs[i].mape <= xs[j].mape

\* C12: a SUCCESS payload that is already sorted non-decreasing by mape is
\* shown unchanged, entry by entry, equal mapes in their input order.
C12_SortedInputUnchanged ==
  (~ShowsProgress /\ SortedByMape(fetches[1].data.results.rows))
    => Surfaced = fetches[1].data.results.rows

\* a sorted payload with two different entries of equal mape is shown
C12_Witness ==
  /\ ~ShowsProgress
  /\ SortedByMape(fetches[1].data.results.rows)
  /\ Len(fetches[1].data.results.rows) >= 2
  /\ fetches[1].data.results.rows[1].mape = fetches[1].data.results.rows[2].mape
  /\ fetches[1].data.results.rows[1] # fetches[1].data.results.rows[2]

\* C13: a run of handleSubmit with no file selected sets the validation
\* message and does nothing else: no POST is sent, the route stays, the
\* loading flag stays false.
C13_NoFileRejectedLocally ==
  [][(submits' = submits + 1 /\ file = NoFile)
       => /\ error' = ValidationMsg
          /\ posts' = posts
          /\ post' = post
          /\ route' = route
          /\ loading' = FALSE]_vars

\* a submission without a file has been rejected and no POST was ever sent
C13_Witness ==
  /\ submits > 0
  /\ file = NoFile
  /\ error = ValidationMsg
  /\ posts = 0
  /\ ~loading

\* the POST of the latest submission fails in this step
PostFails == post.st = "pending" /\ post'.st = "rejected"

\* C14 as stated: when the POST fails the message is the detail string of the
\* response whenever the response carries one, the generic message
\* otherwise; no POST is sent again and the route stays.
C14_DetailOrFallback ==
  [][PostFails
       => /\ error' = IF post'.hasResponse /\ post'.hasDetail
                        THEN post'.detail ELSE FallbackMsg
          /\ posts' = posts
          /\ route' = route]_vars

\* C14 amended: the detail string is shown when the response carries a
\* non-empty one; an empty or missing detail gives the generic message.
C14_NonEmptyDetailOrFallback ==
  [][PostFails
       => /\ error' = IF post'.hasResponse /\ post'.hasDetail /\ post'.detail # ""
                        THEN post'.detail ELSE FallbackMsg
          /\ posts' = posts
          /\ route' = route]_vars

\* a failed POST whose response carried a detail text, shown as the message
C14_Witness ==
  /\ post.st = "rejected"
  /\ post.hasDetail
  /\ post.detail # ""
  /\ error = post.detail
  /\ route = "home"

\* C20: the loading flag is true exactly while the POST of a submission is
\* in flight.
C20_LoadingIffInFlight == loading <=> (post.st = "pending")

\* a submission failed and the button is enabled again for a retry
C20_Witness ==
  /\ post.st = "rejected"
  /\ ~loading
  /\ route = "home"
  /\ submits < MaxSubmits

\* the response of query f is handled in this step
Applies(f) == fetches[f].st = "answered" /\ fetches'[f].st = "applied"

\* C16: handling a response whose status is not SUCCESS makes the snapshot
\* equal to the response body, field for field, and leaves results alone.
C16_SnapshotReplaced ==
  [][\A f \in DOMAIN fetches :
       (Applies(f) /\ fetches[f].data.status # "SUCCESS")
         => (taskStatus' = fetches[f].data /\ results' = results)]_vars

\* a response without meta has replaced the initial snapshot, whose meta is {}
C16_Witness ==
  /\ applied # <<>>
  /\ fetches[1].data.status = "RUNNING"
  /\ ~fetches[1].data.meta.has
  /\ taskStatus = fetches[1].data
  /\ results.isNull

\* C17: when taskId changes on a mounted page, the snapshot and the results
\* of the previous task are no longer held, and no response to a query for a
\* task other than the current one is applied.
C17_StateBelongsToTask ==
  [][/\ (view = "mounted" /\ taskId' # taskId)
          => (taskStatus' = InitialTaskStatus /\ results' = NullResults)
     /\ \A f \in DOMAIN fetches :
          (Applies(f) /\ view = "mounted") => fetches[f].task = taskId]_vars

\* C18: at most one interval is active, it is the one of the latest effect
\* run, and none is active once the page has unmounted.
C18_OneTimer ==
  /\ Cardinality(timers) <= 1
  /\ timers \subseteq {poll}
  /\ view = "unmounted" => timers = {}

\* after a StrictMode mount the page went through a taskId change and the new
\* interval is the only one
C18_Witness ==
  /\ view = "mounted"
  /\ strict
  /\ taskId # 1
  /\ Len(polls) >= 3
  /\ timers = {poll}

\* C19: on a mounted page whose task has succeeded at the worker and whose
\* interval is active, results are eventually set and the interval cleared,
\* unless the page unmounts, the taskId changes or a query of that interval
\* fails.
C19_EventuallyCompletes ==
  \A p \in PollIds :
    (/\ view = "mounted"
     /\ poll = p
     /\ p \in timers
     /\ server[taskId].phase = "SUCCESS"
     /\ Len(fetches) < MaxFetch)
      ~> (\/ (~results.isNull /\ p \notin timers)
          \/ view # "mounted"
          \/ poll # p
          \/ Failed(p) # {})

\* polling has completed: results are set from a SUCCESS response, no
\* interval is active and no query failed
C19_Witness ==
  /\ view = "mounted"
  /\ ~results.isNull
  /\ timers = {}
  /\ Handled(poll, "SUCCESS") # {}
  /\ Failed(poll) = {}

\* a step that belongs to interval p: it sends a query of p or resolves one
SessionStep(p) ==
  \/ Issued(p)' # Issued(p)
  \/ \E f \in Issued(p) : fetches'[f] # fetches[f]

\* C15: once an interval has set results from a SUCCESS response on a
\* mounted page, no later step of that interval changes the results or
\* brings the progress view back.
C15_TerminalIsStable ==
  [][\A p \in PollIds :
       (/\ view = "mounted"
        /\ Handled(p, "SUCCESS") # {}
        /\ SessionStep(p))
         => (results' = results /\ ~results'.isNull)]_vars

====
